---- MODULE Spec2Model ----
(***************************************************************************)
(* A model of isc.ddns.session: the RFC 2136 dynamic update session.       *)
(* One behaviour is one UpdateSession: construction, then handle() run     *)
(* phase by phase (zone resolution, prerequisites, prescan, SOA            *)
(* finalization, per-record update, commit).  The DNS library, the zone    *)
(* configuration, the data source and the Diff live outside session.py and *)
(* are modelled from their documented interfaces.                          *)
(***************************************************************************)
EXTENDS Integers, Sequences, FiniteSets, TLC

(***************************************************************************)
(* Bounds of the model.                                                    *)
(***************************************************************************)
\* longest UPDATE section built from the core record pool
MaxUpd == 2
\* longest PREREQUISITE section built from the core record pool
MaxPre == 1
\* most Rdata in one record of a request
MaxRdata == 2

(***************************************************************************)
(* Result codes of UpdateSession.handle().                                 *)
(***************************************************************************)
UPDATE_SUCCESS == 0
UPDATE_ERROR == 1
UPDATE_DROP == 2

\* Python's None: as a zone name or class, and as an RRset
None == "None"
NoRRset == [none |-> TRUE]

(***************************************************************************)
(* isc.dns: names, classes, types, Rdata, RRsets.                          *)
(***************************************************************************)
Apex == "ex."
Www == "www.ex."
Out == "org."
Names == {Apex, Www, Out}
InZoneNames == {Apex, Www}

\* the labels of a name, most specific first
NameLabels(n) ==
    CASE n = Apex -> <<"ex">>
      [] n = Www -> <<"www", "ex">>
      [] n = Out -> <<"org">>

IsSuffix(s, t) ==
    /\ Len(s) <= Len(t)
    /\ SubSeq(t, Len(t) - Len(s) + 1, Len(t)) = s

\* Name.compare(other).get_relation()
get_relation(a, b) ==
    IF NameLabels(a) = NameLabels(b) THEN "EQUAL"
    ELSE IF IsSuffix(NameLabels(b), NameLabels(a)) THEN "SUBDOMAIN"
    ELSE IF IsSuffix(NameLabels(a), NameLabels(b)) THEN "SUPERDOMAIN"
    ELSE "COMMONANCESTOR"

\* the class of the zone the server is primary or secondary for
ZoneClass == "IN"
Classes == {"IN", "CH", "ANY", "NONE"}

\* RRType.get_code()
RRTypeCode == [A |-> 1, NS |-> 2, CNAME |-> 5, SOA |-> 6, TKEY |-> 249, ANY |-> 255]
get_code(t) == RRTypeCode[t]
Types == {"A", "NS", "CNAME", "SOA", "TKEY", "ANY"}
\* the types a zone stores, in the order find_all() lists them
StoredTypeOrder == <<"SOA", "NS", "A", "CNAME">>
StoredTypes == {"SOA", "NS", "A", "CNAME"}

\* the first meta type (TKEY) and the last one below ANY (MAILA)
MetaTypeFirst == 249
MetaTypeLastBelowAny == 254

\* wire-format payloads
Wires == {1, 2}

\* isc.dns.Rdata(rrtype, rrclass, wire): an Rdata is tagged by type and class
Rdata(t, c, w) == [rrtype |-> t, rrclass |-> c, wire |-> w]
\* Rdata.to_wire()
to_wire(rd) == rd.wire

\* isc.dns.RRset(name, class, type, ttl) followed by add_rdata of each payload
RRset(n, c, t, ttl, wires) ==
    [name |-> n, rrclass |-> c, rrtype |-> t, ttl |-> ttl,
     rdata |-> [i \in 1..Len(wires) |-> Rdata(t, c, wires[i])]]

Range(s) == {s[i] : i \in 1..Len(s)}

\* list.remove(x): drops the first element equal to x
RECURSIVE RemoveFirst(_, _)
RemoveFirst(s, x) ==
    IF s = <<>> THEN <<>>
    ELSE IF Head(s) = x THEN Tail(s)
    ELSE <<Head(s)>> \o RemoveFirst(Tail(s), x)

(***************************************************************************)
(* The data source: the zone is a map from (name, type) to the stored      *)
(* Rdata list; an empty list means that RRset is absent.                   *)
(***************************************************************************)
ZoneKeys == InZoneNames \X StoredTypes

StoredRRset(zone, n, t) ==
    [name |-> n, rrclass |-> ZoneClass, rrtype |-> t, ttl |-> 3600,
     rdata |-> zone[<<n, t>>]]

\* a name outside the zone, or a type the zone does not store, holds nothing
HasName(zone, n) ==
    n \in InZoneNames /\ \E t \in StoredTypes : zone[<<n, t>>] # <<>>
HasRRset(zone, n, t) == <<n, t>> \in ZoneKeys /\ zone[<<n, t>>] # <<>>

\* ZoneFinder.find(name, type, NO_WILDCARD | FIND_GLUE_OK)
find(zone, n, t) ==
    IF ~HasName(zone, n) THEN [result |-> "NXDOMAIN", rrset |-> NoRRset]
    ELSE IF HasRRset(zone, n, t)
         THEN [result |-> "SUCCESS", rrset |-> StoredRRset(zone, n, t)]
    ELSE IF HasRRset(zone, n, "CNAME")
         THEN [result |-> "CNAME", rrset |-> StoredRRset(zone, n, "CNAME")]
    ELSE [result |-> "NXRRSET", rrset |-> NoRRset]

\* ZoneFinder.find_all(name, NO_WILDCARD | FIND_GLUE_OK)
find_all(zone, n) ==
    IF ~HasName(zone, n)
    THEN [result |-> "NXDOMAIN", rrsets |-> <<>>, wildcard |-> FALSE]
    ELSE [result |-> "SUCCESS",
          rrsets |-> [i \in 1..Len(SelectSeq(StoredTypeOrder,
                                             LAMBDA t : HasRRset(zone, n, t)))
                        |-> StoredRRset(zone, n,
                               SelectSeq(StoredTypeOrder,
                                         LAMBDA t : HasRRset(zone, n, t))[i])],
          wildcard |-> FALSE]

(***************************************************************************)
(* isc.xfrin.diff.Diff: a buffer of add and delete operations, applied to  *)
(* the data source in insertion order by commit(), all or nothing.         *)
(***************************************************************************)
\* what add_data(rr) and delete_data(rr) raise for a record they refuse
DiffRefuses(rr) ==
    IF rr = NoRRset THEN "AttributeError"
    ELSE IF Len(rr.rdata) # 1 THEN "ValueError"
    ELSE "none"

DiffAdd(rr) == [op |-> "add", rr |-> rr]
DiffDelete(rr) == [op |-> "delete", rr |-> rr]

ApplyOp(zone, e) ==
    LET k == <<e.rr.name, e.rr.rrtype>>
        rd == e.rr.rdata[1]
    IN  IF k \notin ZoneKeys THEN zone
        ELSE IF e.op = "add"
        THEN [zone EXCEPT ![k] = Append(@, rd)]
        ELSE [zone EXCEPT ![k] = SelectSeq(@, LAMBDA x : x # rd)]

RECURSIVE ApplyOps(_, _)
ApplyOps(zone, ops) ==
    IF ops = <<>> THEN zone
    ELSE ApplyOps(ApplyOp(zone, Head(ops)), Tail(ops))

\* Diff.commit() when the data source accepts it
DiffCommit(zone, buffer) == ApplyOps(zone, buffer)

(***************************************************************************)
(* isc.ddns.zone_config.ZoneConfig.find_zone(zname, zclass): the server    *)
(* is configured with at most the zone (Apex, ZoneClass), in role `role`.  *)
(***************************************************************************)
Roles == {"ZONE_PRIMARY", "ZONE_SECONDARY", "ZONE_NOTFOUND"}
ZoneConfig_find_zone(role, n, c) ==
    IF n = Apex /\ c = ZoneClass THEN role ELSE "ZONE_NOTFOUND"

(***************************************************************************)
(* isc.dns.Message: make_response(), clear_section(), set_rcode().         *)
(***************************************************************************)
\* keeps the id and the question (ZONE) section, sets QR, clears the rest
Message_make_response(m) ==
    [m EXCEPT !.qr = TRUE, !.prereq = <<>>, !.update = <<>>,
              !.additional = <<>>, !.rcode = "NOERROR"]
Message_clear_zone(m) == [m EXCEPT !.zone = <<>>]
Message_set_rcode(m, rcode) == [m EXCEPT !.rcode = rcode]

(***************************************************************************)
(* session.py: module-level helpers.                                       *)
(***************************************************************************)
\* rrset_as_rrs() that hands the whole RRset to its method every time
rrset_as_rrs_whole(rrset) ==
    [i \in 1..Len(rrset.rdata) |-> rrset]

\* the one-Rdata RRsets rrset_as_rrs() hands to its method, in order
rrset_as_rrs(rrset) ==
    [i \in 1..Len(rrset.rdata) |-> [rrset EXCEPT !.rdata = <<rrset.rdata[i]>>]]

\* rrset_as_rrs() returns the unassigned local `result` when the loop body
\* never ran
rrset_as_rrs_raises(rrset) ==
    IF Len(rrset.rdata) = 0 THEN "UnboundLocalError" ELSE "none"

rrset_class_conversion(rrset, rrclass) ==
    [name |-> rrset.name, rrclass |-> rrclass, rrtype |-> rrset.rrtype,
     ttl |-> rrset.ttl,
     rdata |-> [i \in 1..Len(rrset.rdata) |->
                   Rdata(rrset.rrtype, rrclass, to_wire(rrset.rdata[i]))]]

(***************************************************************************)
(* UpdateSession: zone resolution and response.                            *)
(***************************************************************************)
\* __get_update_zone() without the check of the type of the zone record
get_update_zone_any_type(m, role) ==
    IF Len(m.zone) # 1 THEN [rcode |-> "FORMERR", queries |-> 0]
    ELSE LET zone_type == ZoneConfig_find_zone(role, m.zone[1].name,
                                               m.zone[1].rrclass)
         IN  IF zone_type = "ZONE_PRIMARY"
             THEN [rcode |-> "NOERROR", queries |-> 1]
             ELSE IF zone_type = "ZONE_SECONDARY"
             THEN [rcode |-> "NOTIMP", queries |-> 1]
             ELSE [rcode |-> "NOTAUTH", queries |-> 1]

\* __get_update_zone() that takes a secondary zone for one it may update
get_update_zone_secondary_ok(m, role) ==
    IF Len(m.zone) # 1 THEN [rcode |-> "FORMERR", queries |-> 0]
    ELSE IF m.zone[1].rrtype # "SOA" THEN [rcode |-> "FORMERR", queries |-> 0]
    ELSE LET zone_type == ZoneConfig_find_zone(role, m.zone[1].name,
                                               m.zone[1].rrclass)
         IN  IF zone_type \in {"ZONE_PRIMARY", "ZONE_SECONDARY"}
             THEN [rcode |-> "NOERROR", queries |-> 1]
             ELSE [rcode |-> "NOTAUTH", queries |-> 1]

\* __get_update_zone(): the rcode of the UpdateError it raises ("NOERROR"
\* when it returns the data source) and the number of ZoneConfig queries
get_update_zone(m, role) ==
    IF Len(m.zone) # 1 THEN [rcode |-> "FORMERR", queries |-> 0]
    ELSE IF m.zone[1].rrtype # "SOA" THEN [rcode |-> "FORMERR", queries |-> 0]
    ELSE LET zone_type == ZoneConfig_find_zone(role, m.zone[1].name,
                                               m.zone[1].rrclass)
         IN  IF zone_type = "ZONE_PRIMARY"
             THEN [rcode |-> "NOERROR", queries |-> 1]
             ELSE IF zone_type = "ZONE_SECONDARY"
             THEN [rcode |-> "NOTIMP", queries |-> 1]
             ELSE [rcode |-> "NOTAUTH", queries |-> 1]

\* __make_response that leaves the ZONE section as make_response() left it
make_response_keeping_zone(m, rcode) ==
    Message_set_rcode(Message_make_response(m), rcode)

\* __make_response(rcode)
make_response(m, rcode) ==
    Message_set_rcode(Message_clear_zone(Message_make_response(m)), rcode)

(***************************************************************************)
(* UpdateSession: prerequisites (RFC 2136 section 3.2).                    *)
(***************************************************************************)
prereq_rrset_exists(zone, rrset) ==
    find(zone, rrset.name, rrset.rrtype).result = "SUCCESS"

\* the loop of __prereq_rrset_exists_value over the Rdata of the
\* prerequisite, on a copy of the stored Rdata list
RECURSIVE match_rdata(_, _)
match_rdata(found_rdata, rdatas) ==
    IF rdatas = <<>> THEN Len(found_rdata) = 0
    ELSE IF Head(rdatas) \in Range(found_rdata)
         THEN match_rdata(RemoveFirst(found_rdata, Head(rdatas)), Tail(rdatas))
         ELSE FALSE

\* __prereq_rrset_exists_value comparing the Rdata as sets
prereq_rrset_exists_value_as_sets(zone, rrset) ==
    LET f == find(zone, rrset.name, rrset.rrtype)
    IN  IF /\ f.result = "SUCCESS"
           /\ rrset.name = f.rrset.name
           /\ rrset.rrtype = f.rrset.rrtype
        THEN Range(f.rrset.rdata) = Range(rrset.rdata)
        ELSE FALSE

prereq_rrset_exists_value(zone, rrset) ==
    LET f == find(zone, rrset.name, rrset.rrtype)
    IN  IF /\ f.result = "SUCCESS"
           /\ rrset.name = f.rrset.name
           /\ rrset.rrtype = f.rrset.rrtype
        THEN match_rdata(f.rrset.rdata, rrset.rdata)
        ELSE FALSE

prereq_rrset_does_not_exist(zone, rrset) == ~prereq_rrset_exists(zone, rrset)

prereq_name_in_use(zone, rrset) ==
    LET f == find_all(zone, rrset.name)
    IN  f.result = "SUCCESS" /\ ~f.wildcard

\* __prereq_name_not_in_use that lost its negation
prereq_name_not_in_use_unnegated(zone, rrset) == prereq_name_in_use(zone, rrset)

prereq_name_not_in_use(zone, rrset) == ~prereq_name_in_use(zone, rrset)

\* __check_in_zone that also takes a name with a common ancestor for in-zone
check_in_zone_common_ancestor(rrset, zname) ==
    get_relation(rrset.name, zname) \in {"SUBDOMAIN", "EQUAL", "COMMONANCESTOR"}

check_in_zone(rrset, zname) ==
    get_relation(rrset.name, zname) \in {"SUBDOMAIN", "EQUAL"}

\* the body of the loop of __check_prerequisites for one record: the rcode
\* it returns ("NOERROR" when the loop goes on) and the data source lookups
check_prerequisite(zone, zname, zclass, rrset) ==
    IF ~check_in_zone(rrset, zname) THEN [rcode |-> "NOTZONE", lookups |-> 0]
    ELSE IF rrset.rrclass = "ANY" THEN
        IF rrset.ttl # 0 \/ Len(rrset.rdata) # 0
        THEN [rcode |-> "FORMERR", lookups |-> 0]
        ELSE IF rrset.rrtype = "ANY"
        THEN [rcode |-> IF ~prereq_name_in_use(zone, rrset)
                        THEN "NXDOMAIN" ELSE "NOERROR", lookups |-> 1]
        ELSE [rcode |-> IF ~prereq_rrset_exists(zone, rrset)
                        THEN "NXRRSET" ELSE "NOERROR", lookups |-> 1]
    ELSE IF rrset.rrclass = "NONE" THEN
        IF rrset.ttl # 0 \/ Len(rrset.rdata) # 0
        THEN [rcode |-> "FORMERR", lookups |-> 0]
        ELSE IF rrset.rrtype = "ANY"
        THEN [rcode |-> IF ~prereq_name_not_in_use(zone, rrset)
                        THEN "YXDOMAIN" ELSE "NOERROR", lookups |-> 1]
        ELSE [rcode |-> IF ~prereq_rrset_does_not_exist(zone, rrset)
                        THEN "YXRRSET" ELSE "NOERROR", lookups |-> 1]
    ELSE IF rrset.rrclass = zclass THEN
        IF rrset.ttl # 0
        THEN [rcode |-> "FORMERR", lookups |-> 0]
        ELSE [rcode |-> IF ~prereq_rrset_exists_value(zone, rrset)
                        THEN "NXRRSET" ELSE "NOERROR", lookups |-> 1]
    ELSE [rcode |-> "FORMERR", lookups |-> 0]

(***************************************************************************)
(* UpdateSession: prescan (RFC 2136 section 3.4.1).                        *)
(***************************************************************************)
\* a prescan that keeps the first SOA Rdata it meets instead of the last
do_prescan_rr_first_soa(zname, zclass, rrset, added_soa) ==
    LET go_on == [rcode |-> "NOERROR", added_soa |-> added_soa, exc |-> "none"]
        formerr == [go_on EXCEPT !.rcode = "FORMERR"]
    IN
    IF ~check_in_zone(rrset, zname) THEN [go_on EXCEPT !.rcode = "NOTZONE"]
    ELSE IF rrset.rrclass = zclass THEN
        IF get_code(rrset.rrtype) >= MetaTypeFirst THEN formerr
        ELSE IF rrset.rrtype = "SOA"
        THEN [go_on EXCEPT
                !.added_soa = IF Len(rrset.rdata) = 0 \/ added_soa # NoRRset
                              THEN added_soa
                              ELSE rrset_as_rrs(rrset)[1],
                !.exc = rrset_as_rrs_raises(rrset)]
        ELSE go_on
    ELSE IF rrset.rrclass = "ANY" THEN
        IF rrset.ttl # 0 THEN formerr
        ELSE IF Len(rrset.rdata) > 0 THEN formerr
        ELSE IF /\ get_code(rrset.rrtype) >= MetaTypeFirst
                /\ get_code(rrset.rrtype) <= MetaTypeLastBelowAny THEN formerr
        ELSE go_on
    ELSE IF rrset.rrclass = "NONE" THEN
        IF rrset.ttl # 0 THEN formerr
        ELSE IF get_code(rrset.rrtype) >= MetaTypeFirst THEN formerr
        ELSE go_on
    ELSE formerr

\* the body of the loop of __do_prescan for one record: the rcode it
\* returns ("NOERROR" when the loop goes on), the value of __added_soa
\* afterwards and the exception that escapes, if any
do_prescan_rr(zname, zclass, rrset, added_soa) ==
    LET go_on == [rcode |-> "NOERROR", added_soa |-> added_soa, exc |-> "none"]
        formerr == [go_on EXCEPT !.rcode = "FORMERR"]
    IN
    IF ~check_in_zone(rrset, zname) THEN [go_on EXCEPT !.rcode = "NOTZONE"]
    ELSE IF rrset.rrclass = zclass THEN
        IF get_code(rrset.rrtype) >= MetaTypeFirst THEN formerr
        ELSE IF rrset.rrtype = "SOA"
        THEN [go_on EXCEPT
                !.added_soa = IF Len(rrset.rdata) = 0 THEN added_soa
                              ELSE rrset_as_rrs(rrset)[Len(rrset.rdata)],
                !.exc = rrset_as_rrs_raises(rrset)]
        ELSE go_on
    ELSE IF rrset.rrclass = "ANY" THEN
        IF rrset.ttl # 0 THEN formerr
        ELSE IF Len(rrset.rdata) > 0 THEN formerr
        ELSE IF /\ get_code(rrset.rrtype) >= MetaTypeFirst
                /\ get_code(rrset.rrtype) <= MetaTypeLastBelowAny THEN formerr
        ELSE go_on
    ELSE IF rrset.rrclass = "NONE" THEN
        IF rrset.ttl # 0 THEN formerr
        ELSE IF get_code(rrset.rrtype) >= MetaTypeFirst THEN formerr
        ELSE go_on
    ELSE formerr

(***************************************************************************)
(* UpdateSession: update (RFC 2136 section 3.4.2).  Each operator gives    *)
(* the operations the method appends to the Diff, the exception that       *)
(* escapes it ("none" when it returns) and its data source lookups.        *)
(***************************************************************************)
NoOps == [ops |-> <<>>, exc |-> "none"]
Raises(e) == [ops |-> <<>>, exc |-> e]

\* diff.add_data(rr), diff.delete_data(rr)
add_data(rr) ==
    IF DiffRefuses(rr) # "none" THEN Raises(DiffRefuses(rr))
    ELSE [ops |-> <<DiffAdd(rr)>>, exc |-> "none"]
delete_data(rr) ==
    IF DiffRefuses(rr) # "none" THEN Raises(DiffRefuses(rr))
    ELSE [ops |-> <<DiffDelete(rr)>>, exc |-> "none"]

\* calls made one after the other: the first exception ends the sequence
RECURSIVE Chain(_)
Chain(rs) ==
    IF rs = <<>> THEN NoOps
    ELSE IF Head(rs).exc # "none" THEN Head(rs)
    ELSE LET rest == Chain(Tail(rs))
         IN  [ops |-> Head(rs).ops \o rest.ops, exc |-> rest.exc]

\* rrset_as_rrs(rrset, method, ...) given the outcome of each method call
for_each_rr(rrset, calls) ==
    LET c == Chain(calls)
    IN  IF c.exc # "none" THEN c
        ELSE [ops |-> c.ops, exc |-> rrset_as_rrs_raises(rrset)]

do_update_add_single_rr(rr, existing_rrset) ==
    IF existing_rrset = NoRRset THEN Raises("AttributeError")
    ELSE IF rr.rdata[1] \notin Range(existing_rrset.rdata) THEN add_data(rr)
    ELSE NoOps

do_update_add_rrs_to_rrset(zone, rrset) ==
    IF rrset.rrtype = "SOA" THEN [lookups |-> 0] @@ NoOps
    ELSE
    LET f == find(zone, rrset.name, rrset.rrtype)
        orig_rrset == f.rrset
        adds == for_each_rr(rrset,
                    [i \in 1..Len(rrset.rdata) |->
                        do_update_add_single_rr(rrset_as_rrs(rrset)[i],
                                                orig_rrset)])
    IN  [lookups |-> 1] @@
        (IF f.result = "SUCCESS" THEN
            IF rrset.rrtype = "CNAME" THEN
                IF orig_rrset.rrtype = "CNAME"
                \* diff.remove_data: the Diff has no such method
                THEN Raises("AttributeError")
                ELSE NoOps
            ELSE IF orig_rrset.rrtype = "CNAME" THEN NoOps
            ELSE adds
         ELSE adds)

do_update_delete_rrset(zone, zname, rrset) ==
    LET to_delete == find(zone, rrset.name, rrset.rrtype).rrset
    IN  [lookups |-> 1] @@
        (IF to_delete = NoRRset THEN Raises("AttributeError")
         ELSE IF /\ to_delete.name = zname
                 /\ to_delete.rrtype \in {"SOA", "NS"} THEN NoOps
         ELSE for_each_rr(to_delete,
                  [i \in 1..Len(to_delete.rdata) |->
                      delete_data(rrset_as_rrs(to_delete)[i])]))

\* the loop of __ns_deleter_helper from the i-th Rdata of rrset on
RECURSIVE ns_deleter_loop(_, _, _)
ns_deleter_loop(orig_rrset_rdata, rrset, i) ==
    IF i > Len(rrset.rdata) THEN NoOps
    ELSE LET rdata == rrset.rdata[i]
             to_delete == [rrset EXCEPT !.rdata = <<rdata>>]
         IN  IF Len(orig_rrset_rdata) = 1 /\ rdata = orig_rrset_rdata[1]
             THEN ns_deleter_loop(orig_rrset_rdata, rrset, i + 1)
             ELSE IF rdata \notin Range(orig_rrset_rdata)
             THEN Raises("ValueError")
             ELSE Chain(<<delete_data(to_delete),
                          ns_deleter_loop(RemoveFirst(orig_rrset_rdata, rdata),
                                          rrset, i + 1)>>)

ns_deleter_helper(zone, zname, rrset) ==
    LET orig_rrset == find(zone, rrset.name, rrset.rrtype).rrset
    IN  [lookups |-> 1] @@
        (IF orig_rrset = NoRRset THEN Raises("AttributeError")
         ELSE ns_deleter_loop(orig_rrset.rdata, rrset, 1))

\* __do_update_delete_name without the exception for the apex SOA and NS
do_update_delete_name_unprotected(zone, zname, rrset) ==
    LET f == find_all(zone, rrset.name)
    IN  [lookups |-> 1] @@
        (IF f.result = "SUCCESS" /\ ~f.wildcard
         THEN Chain([k \in 1..Len(f.rrsets) |->
                 for_each_rr(f.rrsets[k],
                     [i \in 1..Len(f.rrsets[k].rdata) |->
                         delete_data(rrset_as_rrs(f.rrsets[k])[i])])])
         ELSE NoOps)

do_update_delete_name(zone, zname, rrset) ==
    LET f == find_all(zone, rrset.name)
    IN  [lookups |-> 1] @@
        (IF f.result = "SUCCESS" /\ ~f.wildcard
         THEN Chain([k \in 1..Len(f.rrsets) |->
                 LET to_delete == f.rrsets[k]
                 IN  IF /\ to_delete.name = zname
                        /\ to_delete.rrtype \in {"SOA", "NS"} THEN NoOps
                     ELSE for_each_rr(to_delete,
                              [i \in 1..Len(to_delete.rdata) |->
                                  delete_data(rrset_as_rrs(to_delete)[i])])])
         ELSE NoOps)

\* __do_update_delete_rrs_from_rrset that deletes the record as it came,
\* in class NONE
do_update_delete_rrs_from_rrset_unconverted(zone, zname, zclass, rrset) ==
    IF rrset.name = zname /\ rrset.rrtype = "SOA"
    THEN [lookups |-> 0] @@ NoOps
    ELSE IF rrset.name = zname /\ rrset.rrtype = "NS"
    THEN ns_deleter_helper(zone, zname, rrset)
    ELSE [lookups |-> 0] @@
         for_each_rr(rrset,
             [i \in 1..Len(rrset.rdata) |->
                 delete_data(rrset_as_rrs(rrset)[i])])

do_update_delete_rrs_from_rrset(zone, zname, zclass, rrset) ==
    LET to_delete == rrset_class_conversion(rrset, zclass)
    IN  IF rrset.name = zname /\ rrset.rrtype = "SOA"
        THEN [lookups |-> 0] @@ NoOps
        ELSE IF rrset.name = zname /\ rrset.rrtype = "NS"
        THEN ns_deleter_helper(zone, zname, to_delete)
        ELSE [lookups |-> 0] @@
             for_each_rr(to_delete,
                 [i \in 1..Len(to_delete.rdata) |->
                     delete_data(rrset_as_rrs(to_delete)[i])])

\* __update_soa that adds the new SOA before it deletes the old one
update_soa_add_first(zone, zname, added_soa) ==
    LET old_soa == find(zone, zname, "SOA").rrset
        new_soa == IF added_soa # NoRRset THEN added_soa ELSE old_soa
    IN  [lookups |-> 1] @@ Chain(<<add_data(new_soa), delete_data(old_soa)>>)

update_soa(zone, zname, added_soa) ==
    LET old_soa == find(zone, zname, "SOA").rrset
        new_soa == IF added_soa # NoRRset THEN added_soa ELSE old_soa
    IN  [lookups |-> 1] @@ Chain(<<delete_data(old_soa), add_data(new_soa)>>)

\* the body of the loop of __do_update for one record of the UPDATE section
do_update_rr(zone, zname, zclass, rrset) ==
    IF rrset.rrclass = zclass THEN do_update_add_rrs_to_rrset(zone, rrset)
    ELSE IF rrset.rrclass = "ANY" THEN
        IF rrset.rrtype = "ANY" THEN do_update_delete_name(zone, zname, rrset)
        ELSE do_update_delete_rrset(zone, zname, rrset)
    ELSE IF rrset.rrclass = "NONE"
    THEN do_update_delete_rrs_from_rrset(zone, zname, zclass, rrset)
    ELSE [lookups |-> 0] @@ NoOps

(***************************************************************************)
(* The requests and zones a session is run on.                             *)
(***************************************************************************)
Question(n, c, t) == [name |-> n, rrclass |-> c, rrtype |-> t]

ZoneSections ==
    {<<>>,
     <<Question(Apex, "IN", "SOA")>>,
     <<Question(Apex, "IN", "A")>>,
     <<Question(Apex, "CH", "SOA")>>,
     <<Question(Out, "IN", "SOA")>>,
     <<Question(Apex, "IN", "SOA"), Question(Out, "IN", "SOA")>>}

RdLists == UNION {[1..k -> Wires] : k \in 0..MaxRdata}

SeqsUpTo(S, n) == UNION {[1..k -> S] : k \in 0..n}

\* prerequisites combined into sections of up to MaxPre records
PrereqCore ==
    {RRset(Apex, "ANY", "ANY", 0, <<>>),
     RRset(Www, "ANY", "A", 0, <<>>),
     RRset(Www, "NONE", "A", 0, <<>>),
     RRset(Www, "IN", "A", 0, <<1>>),
     RRset(Out, "ANY", "ANY", 0, <<>>),
     RRset(Apex, "CH", "A", 0, <<>>)}
\* prerequisites tried alone
PrereqWide ==
    {RRset(n, c, t, ttl, w) :
        n \in Names, c \in Classes, t \in {"A", "NS", "CNAME", "ANY"},
        ttl \in {0, 1}, w \in RdLists}
PrereqSections == SeqsUpTo(PrereqCore, MaxPre) \cup {<<r>> : r \in PrereqWide}

\* update records combined into sections of up to MaxUpd records
UpdateCore ==
    {RRset(Www, "IN", "A", 0, <<1>>),
     RRset(Www, "IN", "A", 0, <<2>>),
     RRset(Www, "IN", "CNAME", 0, <<1>>),
     RRset(Www, "IN", "CNAME", 0, <<2>>),
     RRset(Apex, "IN", "NS", 0, <<2>>),
     RRset(Apex, "IN", "SOA", 0, <<1>>),
     RRset(Apex, "IN", "SOA", 0, <<2>>),
     RRset(Www, "IN", "SOA", 0, <<2>>),
     RRset(Apex, "NONE", "NS", 0, <<1>>),
     RRset(Apex, "NONE", "NS", 0, <<2>>),
     RRset(Www, "NONE", "A", 0, <<1>>),
     RRset(Www, "ANY", "A", 0, <<>>),
     RRset(Www, "ANY", "ANY", 0, <<>>),
     RRset(Apex, "ANY", "ANY", 0, <<>>),
     RRset(Apex, "ANY", "NS", 0, <<>>),
     RRset(Out, "IN", "A", 0, <<1>>),
     RRset(Apex, "CH", "A", 0, <<1>>)}
\* update records tried alone
UpdateWide ==
    {RRset(n, c, t, ttl, w) :
        n \in Names, c \in Classes, t \in Types, ttl \in {0, 1}, w \in RdLists}
UpdateSections == SeqsUpTo(UpdateCore, MaxUpd) \cup {<<r>> : r \in UpdateWide}

Request(id, z, p, u, a) ==
    [id |-> id, qr |-> FALSE, rcode |-> "NOERROR",
     zone |-> z, prereq |-> p, update |-> u, additional |-> a]

\* a zone: one SOA and the NS list ns at the apex, A lists at the apex and
\* at www, a CNAME list at www
Zone(ns, apex_a, www_a, www_cname) ==
    LET wires == [k \in ZoneKeys |->
            CASE k = <<Apex, "SOA">> -> <<1>>
              [] k = <<Apex, "NS">> -> ns
              [] k = <<Apex, "A">> -> apex_a
              [] k = <<Www, "A">> -> www_a
              [] k = <<Www, "CNAME">> -> www_cname
              [] OTHER -> <<>>]
    IN  [k \in ZoneKeys |->
            [i \in 1..Len(wires[k]) |-> Rdata(k[2], ZoneClass, wires[k][i])]]

Zones ==
    {Zone(<<1>>, <<>>, <<>>, <<>>),
     Zone(<<1>>, <<>>, <<1>>, <<>>),
     Zone(<<1, 2>>, <<1>>, <<1, 2>>, <<>>),
     Zone(<<1, 2>>, <<>>, <<>>, <<1>>)}

(***************************************************************************)
(* The session.                                                            *)
(***************************************************************************)
VARIABLES
    message,      \* self.__message: the request, then the response
    request,      \* the message as it was passed to the constructor
    zone_config,  \* the role self.__zone_config reports for (Apex, ZoneClass)
    datasrc,      \* the zone in the data source
    datasrc0,     \* the zone when the session was constructed
    added_soa,    \* self.__added_soa
    pc,           \* where handle() is
    idx,          \* position of the record the current loop is at
    zname,        \* zname and zclass in handle()
    zclass,
    diff,         \* the buffer of the Diff of __do_update
    result,       \* the tuple handle() returned, <<>> before it returns
    raised,       \* the exception that left handle()
    calls,        \* how often the session called its collaborators
    run,          \* which handling of the request this session is
    other         \* a second session on the same zone, NoSession if none

vars == <<message, request, zone_config, datasrc, datasrc0, added_soa, pc,
          idx, zname, zclass, diff, result, raised, calls, run, other>>

NoCalls == [find_zone |-> 0, find |-> 0, commit |-> 0, set_rcode |-> 0,
            examined |-> 0]

\* no second session
NoSession == [pc |-> "none"]

\* the Diff of the second session is open: created and not yet committed
OtherDiffOpen == other.pc = "do_update"

\* UpdateSession.__init__
Constructed(m, role, zone) ==
    /\ message = m
    /\ request = m
    /\ zone_config = role
    /\ datasrc = zone
    /\ datasrc0 = zone
    /\ added_soa = NoRRset
    /\ pc = "get_update_zone"
    /\ idx = 1
    /\ zname = None
    /\ zclass = None
    /\ diff = <<>>
    /\ result = <<>>
    /\ raised = "none"
    /\ calls = NoCalls
    /\ run = 1
    /\ other = NoSession

ValidZoneSection == <<Question(Apex, "IN", "SOA")>>

\* requests that differ in the zone section and in the server's role
InitZoneCases ==
    \E z \in ZoneSections, role \in Roles, id \in {1, 2},
       a \in {<<>>, <<RRset(Www, "IN", "A", 60, <<1>>)>>} :
        Constructed(Request(id, z, <<RRset(Apex, "ANY", "ANY", 0, <<>>)>>,
                            <<RRset(Www, "IN", "A", 0, <<1>>)>>, a),
                    role, Zone(<<1>>, <<>>, <<1>>, <<>>))

\* requests that differ in the prerequisite section
InitPrereqCases ==
    \E p \in PrereqSections, zone \in Zones,
       u \in {<<>>, <<RRset(Www, "IN", "A", 0, <<2>>)>>} :
        Constructed(Request(1, ValidZoneSection, p, u, <<>>),
                    "ZONE_PRIMARY", zone)

\* requests that differ in the update section
InitUpdateCases ==
    \E u \in UpdateSections, zone \in Zones :
        Constructed(Request(1, ValidZoneSection, <<>>, u, <<>>),
                    "ZONE_PRIMARY", zone)

Init == InitZoneCases \/ InitPrereqCases \/ InitUpdateCases

\* handle() returns after __make_response(rcode)
Respond(rcode, outcome, zn, zc) ==
    /\ message' = make_response(message, rcode)
    /\ result' = <<outcome, zn, zc>>
    /\ pc' = "done"

\* an exception other than UpdateError leaves handle()
Raise(exc) ==
    /\ raised' = exc
    /\ pc' = "done"
    /\ UNCHANGED <<message, result>>

Count(what, n) == [calls EXCEPT ![what] = @ + n]

GetUpdateZone ==
    /\ pc = "get_update_zone"
    /\ LET r == get_update_zone(message, zone_config)
       IN  IF r.rcode = "NOERROR"
           THEN /\ zname' = message.zone[1].name
                /\ zclass' = message.zone[1].rrclass
                /\ pc' = "check_prerequisites"
                /\ calls' = Count("find_zone", r.queries)
                /\ UNCHANGED <<message, result>>
           ELSE /\ Respond(r.rcode, UPDATE_ERROR, None, None)
                /\ calls' = [calls EXCEPT !.find_zone = @ + r.queries,
                                          !.set_rcode = @ + 1]
                /\ UNCHANGED <<zname, zclass>>
    /\ UNCHANGED <<other, run, request, zone_config, datasrc, datasrc0, added_soa, idx,
                   diff, raised>>

\* a handle() that goes on to the update whatever __check_prerequisites
\* returned
CheckPrerequisite_unchecked ==
    /\ pc = "check_prerequisites"
    /\ idx <= Len(message.prereq)
    /\ LET r == check_prerequisite(datasrc, zname, zclass, message.prereq[idx])
       IN  /\ idx' = idx + 1
           /\ calls' = [calls EXCEPT !.find = @ + r.lookups,
                                     !.examined = @ + 1]
    /\ UNCHANGED <<other, run, message, result, pc, request, zone_config, datasrc,
                   datasrc0, added_soa, zname, zclass, diff, raised>>

CheckPrerequisite ==
    /\ pc = "check_prerequisites"
    /\ idx <= Len(message.prereq)
    /\ LET r == check_prerequisite(datasrc, zname, zclass, message.prereq[idx])
       IN  IF r.rcode = "NOERROR"
           THEN /\ idx' = idx + 1
                /\ calls' = [calls EXCEPT !.find = @ + r.lookups,
                                          !.examined = @ + 1]
                /\ UNCHANGED <<message, result, pc>>
           ELSE /\ Respond(r.rcode, UPDATE_ERROR, zname, zclass)
                /\ calls' = [calls EXCEPT !.find = @ + r.lookups,
                                          !.examined = @ + 1,
                                          !.set_rcode = @ + 1]
                /\ UNCHANGED idx
    /\ UNCHANGED <<other, run, request, zone_config, datasrc, datasrc0, added_soa, zname,
                   zclass, diff, raised>>

PrerequisitesSatisfied ==
    /\ pc = "check_prerequisites"
    /\ idx > Len(message.prereq)
    /\ pc' = "do_prescan"
    /\ idx' = 1
    /\ UNCHANGED <<other, run, message, request, zone_config, datasrc, datasrc0, added_soa,
                   zname, zclass, diff, result, raised, calls>>

\* a prescan that applies each record it accepts to the data source at once
Prescan_applying ==
    /\ pc = "do_prescan"
    /\ idx <= Len(message.update)
    /\ LET r == do_prescan_rr(zname, zclass, message.update[idx], added_soa)
       IN  /\ added_soa' = r.added_soa
           /\ IF r.exc # "none"
              THEN /\ Raise(r.exc)
                   /\ calls' = Count("examined", 1)
                   /\ UNCHANGED <<idx, datasrc>>
              ELSE IF r.rcode = "NOERROR"
              THEN /\ idx' = idx + 1
                   /\ calls' = Count("examined", 1)
                   /\ datasrc' = ApplyOps(datasrc,
                          do_update_rr(datasrc, zname, zclass,
                                       message.update[idx]).ops)
                   /\ UNCHANGED <<message, result, pc, raised>>
              ELSE /\ Respond(r.rcode, UPDATE_ERROR, zname, zclass)
                   /\ calls' = [calls EXCEPT !.examined = @ + 1,
                                             !.set_rcode = @ + 1]
                   /\ UNCHANGED <<idx, raised, datasrc>>
    /\ UNCHANGED <<other, run, request, zone_config, datasrc0, zname, zclass, diff>>

Prescan ==
    /\ pc = "do_prescan"
    /\ idx <= Len(message.update)
    /\ LET r == do_prescan_rr(zname, zclass, message.update[idx], added_soa)
       IN  /\ added_soa' = r.added_soa
           /\ IF r.exc # "none"
              THEN /\ Raise(r.exc)
                   /\ calls' = Count("examined", 1)
                   /\ UNCHANGED idx
              ELSE IF r.rcode = "NOERROR"
              THEN /\ idx' = idx + 1
                   /\ calls' = Count("examined", 1)
                   /\ UNCHANGED <<message, result, pc, raised>>
              ELSE /\ Respond(r.rcode, UPDATE_ERROR, zname, zclass)
                   /\ calls' = [calls EXCEPT !.examined = @ + 1,
                                             !.set_rcode = @ + 1]
                   /\ UNCHANGED <<idx, raised>>
    /\ UNCHANGED <<other, run, request, zone_config, datasrc, datasrc0, zname, zclass,
                   diff>>

PrescanPassed ==
    /\ pc = "do_prescan"
    /\ idx > Len(message.update)
    /\ pc' = "update_soa"
    /\ UNCHANGED <<other, run, message, request, zone_config, datasrc, datasrc0, added_soa,
                   idx, zname, zclass, diff, result, raised, calls>>

\* the Diff is created, in single-update mode, and __update_soa runs; the
\* Diff refuses to be created next to the open Diff of another session
UpdateSoa ==
    /\ pc = "update_soa"
    /\ IF OtherDiffOpen
       THEN /\ Raise("isc.datasrc.Error")
            /\ UNCHANGED <<diff, calls, idx>>
       ELSE LET r == update_soa(datasrc, zname, added_soa)
            IN  /\ diff' = r.ops
                /\ calls' = Count("find", r.lookups)
                /\ IF r.exc # "none"
                   THEN /\ Raise(r.exc)
                        /\ UNCHANGED idx
                   ELSE /\ pc' = "do_update"
                        /\ idx' = 1
                        /\ UNCHANGED <<message, result, raised>>
    /\ UNCHANGED <<other, run, request, zone_config, datasrc, datasrc0, added_soa, zname,
                   zclass>>

DoUpdate ==
    /\ pc = "do_update"
    /\ idx <= Len(message.update)
    /\ LET r == do_update_rr(datasrc, zname, zclass, message.update[idx])
       IN  /\ diff' = diff \o r.ops
           /\ calls' = [calls EXCEPT !.find = @ + r.lookups,
                                     !.examined = @ + 1]
           /\ IF r.exc # "none"
              THEN /\ Raise(r.exc)
                   /\ UNCHANGED idx
              ELSE /\ idx' = idx + 1
                   /\ UNCHANGED <<message, result, pc, raised>>
    /\ UNCHANGED <<other, run, request, zone_config, datasrc, datasrc0, added_soa, zname,
                   zclass>>

\* diff.commit() succeeds, __do_update returns NOERROR, handle() responds
Commit ==
    /\ pc = "do_update"
    /\ idx > Len(message.update)
    /\ datasrc' = DiffCommit(datasrc, diff)
    /\ Respond("NOERROR", UPDATE_SUCCESS, zname, zclass)
    /\ calls' = [calls EXCEPT !.commit = @ + 1, !.set_rcode = @ + 1]
    /\ UNCHANGED <<other, run, request, zone_config, datasrc0, added_soa, idx, zname,
                   zclass, diff, raised>>

\* diff.commit() fails with a data source error and changes nothing
CommitFails ==
    /\ pc = "do_update"
    /\ idx > Len(message.update)
    /\ Raise("isc.datasrc.Error")
    /\ calls' = Count("commit", 1)
    /\ UNCHANGED <<other, run, request, zone_config, datasrc, datasrc0, added_soa, idx,
                   zname, zclass, diff>>

Next ==
    \/ GetUpdateZone
    \/ CheckPrerequisite
    \/ PrerequisitesSatisfied
    \/ Prescan
    \/ PrescanPassed
    \/ UpdateSoa
    \/ DoUpdate
    \/ Commit
    \/ CommitFails

Spec == Init /\ [][Next]_vars

\* most handlings of the same request, one after the other
MaxRuns == 2

\* after a handle() that returned SUCCESS, a new UpdateSession is
\* constructed with an identical request against the zone as it now is
HandleAgain ==
    /\ pc = "done"
    /\ result # <<>>
    /\ result[1] = UPDATE_SUCCESS
    /\ run < MaxRuns
    /\ run' = run + 1
    /\ message' = request
    /\ datasrc0' = datasrc
    /\ added_soa' = NoRRset
    /\ pc' = "get_update_zone"
    /\ idx' = 1
    /\ zname' = None
    /\ zclass' = None
    /\ diff' = <<>>
    /\ result' = <<>>
    /\ calls' = NoCalls
    /\ UNCHANGED <<other, request, zone_config, datasrc, raised>>

NextAgain == Next \/ HandleAgain

\* sessions handling the same request repeatedly
SpecAgain == Init /\ [][NextAgain]_vars

(***************************************************************************)
(* Properties.                                                             *)
(***************************************************************************)
Done == pc = "done"
Returned == result # <<>>
Succeeded == Returned /\ result[1] = UPDATE_SUCCESS
Failed == Returned /\ result[1] = UPDATE_ERROR

ApexSOA(zone) == zone[<<Apex, "SOA">>]
ApexNS(zone) == zone[<<Apex, "NS">>]

\* the update section holds an addition of type t at name n
Adds(n, t) ==
    \E i \in 1..Len(request.update) :
        /\ request.update[i].name = n
        /\ request.update[i].rrclass = ZoneClass
        /\ request.update[i].rrtype = t

\* C1: from a zone with exactly one SOA at the apex, a handle() that
\* returns SUCCESS leaves exactly one SOA at the apex
C1_OneApexSOA ==
    (Succeeded /\ Len(ApexSOA(datasrc0)) = 1) => Len(ApexSOA(datasrc)) = 1

\* C2: from a zone with an NS at the apex, a handle() that returns SUCCESS
\* leaves at least one NS at the apex
C2_ApexNSKept ==
    (Succeeded /\ Len(ApexNS(datasrc0)) >= 1) => Len(ApexNS(datasrc)) >= 1

\* C3: when handle() returns ERROR, commit was never invoked, no operation
\* was handed to a Diff and the zone is what it was before the call
C3_ErrorChangesNothing ==
    Failed => /\ calls.commit = 0
              /\ diff = <<>>
              /\ datasrc = datasrc0

\* a prescan rejection of the second update record, after an addition
\* that would have changed the zone
C3_Witness ==
    /\ Failed
    /\ request.prereq = <<>>
    /\ Len(request.update) = 2
    /\ request.update[1] = RRset(Www, "IN", "A", 0, <<2>>)
    /\ datasrc0[<<Www, "A">>] = <<Rdata("A", ZoneClass, 1)>>
    /\ calls.examined = 2
    /\ message.rcode = "NOTZONE"

\* C4: handle() ends by returning SUCCESS or ERROR with the message made a
\* response carrying an rcode, unless the data source fails the commit
C4_AlwaysResponds ==
    (Done /\ raised # "isc.datasrc.Error") =>
        /\ raised = "none"
        /\ Returned
        /\ result[1] \in {UPDATE_SUCCESS, UPDATE_ERROR}
        /\ message.qr

\* C5: the second and third elements handle() returns are the zone's name
\* and class on SUCCESS, and both None otherwise
C5_ZoneOnlyOnSuccess ==
    Returned =>
        IF result[1] = UPDATE_SUCCESS
        THEN /\ result[2] = request.zone[1].name
             /\ result[3] = request.zone[1].rrclass
        ELSE result[2] = None /\ result[3] = None

InvalidZoneSection(m) ==
    Len(m.zone) # 1 \/ m.zone[1].rrtype # "SOA"

\* C6: a zone section that is not exactly one SOA record gives ERROR with
\* FORMERR, and neither the zone configuration nor the data source is asked
C6_BadZoneSection ==
    InvalidZoneSection(request) =>
        /\ calls.find_zone = 0
        /\ calls.find = 0
        /\ Done => /\ Failed
                   /\ message.rcode = "FORMERR"
                   /\ raised = "none"

C6_Witness ==
    /\ Done
    /\ Len(request.zone) = 1
    /\ request.zone[1] = Question(Apex, "IN", "A")
    /\ zone_config = "ZONE_PRIMARY"
    /\ message.rcode = "FORMERR"

\* what the zone configuration reports for the zone section of the request
ReportedRole ==
    ZoneConfig_find_zone(zone_config, request.zone[1].name,
                         request.zone[1].rrclass)

\* C7: with a valid zone section, NOTFOUND gives NOTAUTH and SECONDARY
\* gives NOTIMP; the outcome is ERROR, no record of the prerequisite or
\* update section is examined and the zone is not changed
C7_NotPrimary ==
    (~InvalidZoneSection(request) /\ ReportedRole # "ZONE_PRIMARY") =>
        /\ calls.examined = 0
        /\ calls.find = 0
        /\ datasrc = datasrc0
        /\ Done => /\ Failed
                   /\ raised = "none"
                   /\ message.rcode = IF ReportedRole = "ZONE_SECONDARY"
                                      THEN "NOTIMP" ELSE "NOTAUTH"

C7_Witness ==
    /\ Done
    /\ request.zone = <<Question(Apex, "IN", "SOA")>>
    /\ zone_config = "ZONE_SECONDARY"
    /\ request.prereq # <<>>
    /\ request.update # <<>>
    /\ message.rcode = "NOTIMP"

\* C8: a commit that fails with a data source error makes handle() return
\* ERROR with SERVFAIL; the failure does not leave handle()
C8_CommitFailureIsServfail ==
    (Done /\ calls.commit > 0) =>
        /\ raised = "none"
        /\ \/ Succeeded
           \/ Failed /\ message.rcode = "SERVFAIL"

\* __added_soa after the prescan of the update section upd
RECURSIVE CapturedSoa(_, _, _, _)
CapturedSoa(zn, zc, upd, soa) ==
    IF upd = <<>> THEN soa
    ELSE CapturedSoa(zn, zc, Tail(upd), do_prescan_rr(zn, zc, Head(upd), soa).added_soa)

\* what __do_update hands to the Diff for the update section upd
SessionDiff(zone, zn, zc, upd) ==
    Chain(<<update_soa(zone, zn, CapturedSoa(zn, zc, upd, NoRRset))>>
          \o [i \in 1..Len(upd) |-> do_update_rr(zone, zn, zc, upd[i])])

OnlyAdditions(upd) ==
    \A i \in 1..Len(upd) :
        upd[i].rrclass = ZoneClass /\ upd[i].rrtype \notin {"SOA", "CNAME"}

\* the Rdata of rdatas that are neither in seen nor earlier in rdatas
RECURSIVE FirstOccurrences(_, _)
FirstOccurrences(rdatas, seen) ==
    IF rdatas = <<>> THEN <<>>
    ELSE IF Head(rdatas) \in seen THEN FirstOccurrences(Tail(rdatas), seen)
    ELSE <<Head(rdatas)>>
         \o FirstOccurrences(Tail(rdatas), seen \cup {Head(rdatas)})

\* the update section upd with every repeated addition of the same
\* (name, type, Rdata) left out; seen holds the additions met so far
RECURSIVE AddOnce(_, _)
AddOnce(upd, seen) ==
    IF upd = <<>> THEN <<>>
    ELSE LET rr == Head(upd)
             met == {x[3] : x \in {y \in seen : y[1] = rr.name /\ y[2] = rr.rrtype}}
             kept == FirstOccurrences(rr.rdata, met)
             now == seen \cup {<<rr.name, rr.rrtype, rr.rdata[i]>> :
                                  i \in 1..Len(rr.rdata)}
         IN  (IF kept = <<>> /\ rr.rdata # <<>> THEN <<>>
              ELSE <<[rr EXCEPT !.rdata = kept]>>)
             \o AddOnce(Tail(upd), now)

\* C9: an update section of additions that repeats an addition hands the
\* Diff the same operations, and commits the same zone, as the section
\* that makes each addition once
C9_AddTwiceIsAddOnce ==
    (Succeeded /\ OnlyAdditions(request.update)) =>
        LET once == SessionDiff(datasrc0, Apex, ZoneClass,
                                AddOnce(request.update, {}))
        IN  /\ diff = once.ops
            /\ datasrc = DiffCommit(datasrc0, once.ops)

Occurrences(s, x) == Cardinality({i \in 1..Len(s) : s[i] = x})
SameMultiset(s, t) ==
    \A x \in Range(s) \cup Range(t) : Occurrences(s, x) = Occurrences(t, x)

\* a class-zclass, TTL-0 prerequisite of the zone
IsValuePrerequisite(rr) ==
    /\ rr.name \in InZoneNames
    /\ rr.rrclass = ZoneClass
    /\ rr.ttl = 0

\* the first prerequisite has been evaluated
FirstPrerequisiteDone ==
    /\ zname # None
    /\ ~(pc = "check_prerequisites" /\ idx = 1)

\* handle() returned ERROR on the first prerequisite
FirstPrerequisiteFailed == Done /\ Failed /\ calls.examined = 1

\* C10: a class-zclass, TTL-0 prerequisite passes exactly if an RRset of
\* its name and type is stored and holds the same multiset of Rdata;
\* otherwise it fails with NXRRSET
C10_ValuePrerequisite ==
    (/\ Len(request.prereq) >= 1
     /\ IsValuePrerequisite(request.prereq[1])
     /\ FirstPrerequisiteDone) =>
        LET rr == request.prereq[1]
            matches == /\ HasRRset(datasrc0, rr.name, rr.rrtype)
                       /\ SameMultiset(rr.rdata, datasrc0[<<rr.name, rr.rrtype>>])
        IN  /\ FirstPrerequisiteFailed <=> ~matches
            /\ FirstPrerequisiteFailed => message.rcode = "NXRRSET"

\* the prerequisite names the two stored Rdata in the other order and passes
C10_Witness ==
    /\ request.prereq = <<RRset(Www, "IN", "A", 0, <<2, 1>>)>>
    /\ datasrc0[<<Www, "A">>] = <<Rdata("A", ZoneClass, 1), Rdata("A", ZoneClass, 2)>>
    /\ pc = "check_prerequisites"
    /\ idx = 2

\* the same RRsets are stored: every (name, type) holds the same multiset
SameZone(z1, z2) == \A k \in ZoneKeys : SameMultiset(z1[k], z2[k])

\* C11: when a request was handled with SUCCESS and the identical request
\* is handled again against the resulting zone and succeeds again, the
\* second handling leaves the stored RRsets as they were
C11_SecondHandlingChangesNothing ==
    (run = 2 /\ Succeeded) => SameZone(datasrc, datasrc0)

\* no name of the zone holds a CNAME together with a record of another type
CnameCoherent(zone) ==
    \A n \in InZoneNames :
        zone[<<n, "CNAME">>] # <<>> =>
            \A t \in StoredTypes \ {"CNAME"} : zone[<<n, t>>] = <<>>

\* C12: from a zone where no name holds both a CNAME and a record of
\* another type, a handle() that returns SUCCESS leaves no such name
C12_CnameNeverCoexists ==
    (Succeeded /\ CnameCoherent(datasrc0)) => CnameCoherent(datasrc)

\* a class-ANY, type-ANY record of the zone: delete all RRsets at a name
IsDeleteName(rr) ==
    /\ rr.name \in InZoneNames
    /\ rr.rrclass = "ANY"
    /\ rr.rrtype = "ANY"

\* the zone without the RRsets at n, the apex keeping its SOA and NS
WithoutName(zone, n) ==
    [k \in ZoneKeys |->
        IF k[1] = n /\ ~(n = Apex /\ k[2] \in {"SOA", "NS"})
        THEN <<>> ELSE zone[k]]

\* C13: a successful update of one class-ANY type-ANY record removes every
\* RRset at its name, except the SOA and NS of the apex, which stay as
\* they were, and changes no RRset at any other name
C13_DeleteName ==
    (/\ Succeeded
     /\ Len(request.update) = 1
     /\ IsDeleteName(request.update[1])) =>
        datasrc = WithoutName(datasrc0, request.update[1].name)

\* 'ex. ANY ANY' on a zone with an A at the apex
C13_Witness ==
    /\ Succeeded
    /\ request.update = <<RRset(Apex, "ANY", "ANY", 0, <<>>)>>
    /\ datasrc0[<<Apex, "A">>] # <<>>
    /\ datasrc[<<Apex, "A">>] = <<>>
    /\ datasrc[<<Apex, "NS">>] = datasrc0[<<Apex, "NS">>]

\* the owner name is neither the zone name nor below it
OutOfZone(rr) == rr.name \notin InZoneNames

\* C14: when the prerequisite loop or the prescan loop is at a record whose
\* owner is out of the zone, its next step is the response NOTZONE, with
\* no data source lookup, whatever the record's class, type, TTL and Rdata
C14_OutOfZoneIsNotzone ==
    [][(\/ /\ pc = "check_prerequisites"
           /\ idx <= Len(message.prereq)
           /\ OutOfZone(message.prereq[idx])
        \/ /\ pc = "do_prescan"
           /\ idx <= Len(message.update)
           /\ OutOfZone(message.update[idx]))
       => /\ pc' = "done"
          /\ raised' = "none"
          /\ result' # <<>>
          /\ result'[1] = UPDATE_ERROR
          /\ message'.rcode = "NOTZONE"
          /\ calls'.find = calls.find
          /\ datasrc' = datasrc]_vars

\* an out-of-zone update record of a foreign class, a meta type, a TTL and
\* an Rdata
C14_Witness ==
    /\ Done
    /\ Failed
    /\ request.prereq = <<>>
    /\ request.update = <<RRset(Out, "CH", "TKEY", 1, <<1>>)>>
    /\ message.rcode = "NOTZONE"
    /\ calls.examined = 1

PhaseOrder ==
    <<"get_update_zone", "check_prerequisites", "do_prescan", "update_soa",
      "do_update", "done">>
PhaseRank(p) == CHOOSE i \in 1..Len(PhaseOrder) : PhaseOrder[i] = p

AllPrerequisitesPass ==
    \A i \in 1..Len(request.prereq) :
        check_prerequisite(datasrc0, Apex, ZoneClass, request.prereq[i]).rcode
            = "NOERROR"

PrescanClean ==
    \A i \in 1..Len(request.update) :
        LET r == do_prescan_rr(Apex, ZoneClass, request.update[i], NoRRset)
        IN  r.rcode = "NOERROR" /\ r.exc = "none"

C15_Sound ==
    /\ calls.commit <= 1
    /\ (calls.commit = 1 \/ diff # <<>>) =>
          /\ ~InvalidZoneSection(request)
          /\ ReportedRole = "ZONE_PRIMARY"
          /\ AllPrerequisitesPass
          /\ PrescanClean
          /\ pc \in {"do_update", "done"}

C15_Step ==
    /\ PhaseRank(pc) <= PhaseRank(pc')
    /\ diff' # diff => pc \in {"update_soa", "do_update"}
    /\ calls'.commit # calls.commit =>
          pc = "do_update" /\ idx > Len(message.update) /\ pc' = "done"

\* C15: the phases run in the order zone resolution, prerequisites,
\* prescan, update, commit; commit is invoked at most once, and it and
\* every Diff operation come only after the zone resolved to a primary,
\* every prerequisite passed and the whole update section passed prescan
C15_PhaseOrder == []C15_Sound /\ [][C15_Step]_vars

\* a committed update that had a prerequisite and an update record
C15_Witness ==
    /\ Succeeded
    /\ calls.commit = 1
    /\ Len(request.prereq) = 1
    /\ Len(request.update) = 1
    /\ Len(diff) = 3

\* the rcode of the first record of rcodes that is not NOERROR
RECURSIVE FirstFailure(_)
FirstFailure(rcodes) ==
    IF rcodes = <<>> THEN "NOERROR"
    ELSE IF Head(rcodes) # "NOERROR" THEN Head(rcodes)
    ELSE FirstFailure(Tail(rcodes))

\* the records a loop reads up to and including its first failure
RECURSIVE ReadUntilFailure(_)
ReadUntilFailure(rcodes) ==
    IF rcodes = <<>> THEN 0
    ELSE IF Head(rcodes) # "NOERROR" THEN 1
    ELSE 1 + ReadUntilFailure(Tail(rcodes))

PrerequisiteRcodes ==
    [i \in 1..Len(request.prereq) |->
        check_prerequisite(datasrc0, Apex, ZoneClass, request.prereq[i]).rcode]

PrescanRcodes ==
    [i \in 1..Len(request.update) |->
        do_prescan_rr(Apex, ZoneClass, request.update[i], NoRRset).rcode]

\* the rcode of the first failing check, in phase order: zone,
\* prerequisites, prescan, commit
FirstFailingRcode ==
    LET z == get_update_zone(request, zone_config).rcode
    IN  IF z # "NOERROR" THEN z
        ELSE IF FirstFailure(PrerequisiteRcodes) # "NOERROR"
        THEN FirstFailure(PrerequisiteRcodes)
        ELSE IF FirstFailure(PrescanRcodes) # "NOERROR"
        THEN FirstFailure(PrescanRcodes)
        ELSE IF raised = "isc.datasrc.Error" THEN "SERVFAIL"
        ELSE "NOERROR"

\* the records read when the first failing check ends the handling
ReadUntilFirstFailure ==
    IF get_update_zone(request, zone_config).rcode # "NOERROR" THEN 0
    ELSE IF FirstFailure(PrerequisiteRcodes) # "NOERROR"
    THEN ReadUntilFailure(PrerequisiteRcodes)
    ELSE Len(request.prereq) + ReadUntilFailure(PrescanRcodes)

\* C16: every handle() call writes the response rcode exactly once, and it
\* is the rcode of the first failing check in phase order and, within a
\* section, in section order; after a failing check no later record is
\* read; NOERROR only if every check passed
C16_FirstFailureWins ==
    Done =>
        /\ calls.set_rcode = 1
        /\ message.rcode = FirstFailingRcode
        /\ FirstFailingRcode # "NOERROR" =>
              /\ calls.examined = ReadUntilFirstFailure
              /\ calls.commit = 0
              /\ diff = <<>>

\* what the first prerequisite came to: the rcode of the ERROR response it
\* caused, NOERROR when the loop went on past it
FirstPrerequisiteRcode ==
    IF FirstPrerequisiteFailed THEN message.rcode ELSE "NOERROR"

\* the table of RFC 2136 section 3.2 for the classes ANY and NONE, shared by
\* the two readings of the class-zclass row below; `value` is the rcode of
\* a class-zclass, TTL-0 prerequisite
PrerequisiteTable(zone, rr, value) ==
    IF rr.rrclass \in {"ANY", "NONE"} /\ (rr.ttl # 0 \/ Len(rr.rdata) # 0)
    THEN "FORMERR"
    ELSE IF rr.rrclass = "ANY" /\ rr.rrtype = "ANY"
    THEN (IF HasName(zone, rr.name) THEN "NOERROR" ELSE "NXDOMAIN")
    ELSE IF rr.rrclass = "ANY"
    THEN (IF HasRRset(zone, rr.name, rr.rrtype) THEN "NOERROR" ELSE "NXRRSET")
    ELSE IF rr.rrclass = "NONE" /\ rr.rrtype = "ANY"
    THEN (IF HasName(zone, rr.name) THEN "YXDOMAIN" ELSE "NOERROR")
    ELSE IF rr.rrclass = "NONE"
    THEN (IF HasRRset(zone, rr.name, rr.rrtype) THEN "YXRRSET" ELSE "NOERROR")
    ELSE IF rr.rrclass = ZoneClass /\ rr.ttl # 0 THEN "FORMERR"
    ELSE IF rr.rrclass # ZoneClass THEN "FORMERR"
    ELSE value

\* the first prerequisite is the only one, its owner is in the zone and it
\* has been evaluated
SinglePrerequisiteDone ==
    /\ Len(request.prereq) = 1
    /\ request.prereq[1].name \in InZoneNames
    /\ FirstPrerequisiteDone

\* C17 as claimed: the rcode of a single in-zone prerequisite is that of
\* the table, a class-zclass TTL-0 record falling under 'otherwise NOERROR';
\* FORMERR is decided without a lookup
C17_TableAsClaimed ==
    SinglePrerequisiteDone =>
        LET rr == request.prereq[1]
            rcode == PrerequisiteTable(datasrc0, rr, "NOERROR")
        IN  /\ FirstPrerequisiteRcode = rcode
            /\ rcode = "FORMERR" => calls.find = 0

\* C17 amended: as claimed, but a class-zclass TTL-0 record gives NXRRSET
\* unless RRset(name, type) is stored with exactly the record's Rdata
C17_PrerequisiteTable ==
    SinglePrerequisiteDone =>
        LET rr == request.prereq[1]
            matches == /\ HasRRset(datasrc0, rr.name, rr.rrtype)
                       /\ SameMultiset(rr.rdata,
                                       datasrc0[<<rr.name, rr.rrtype>>])
            rcode == PrerequisiteTable(datasrc0, rr,
                         IF matches THEN "NOERROR" ELSE "NXRRSET")
        IN  /\ FirstPrerequisiteRcode = rcode
            /\ rcode = "FORMERR" => calls.find = 0

\* 'www.ex. NONE ANY' fails with YXDOMAIN on a zone where www.ex. exists
C17_Witness ==
    /\ Done
    /\ Failed
    /\ request.prereq = <<RRset(Www, "NONE", "ANY", 0, <<>>)>>
    /\ HasName(datasrc0, Www)
    /\ message.rcode = "YXDOMAIN"
    /\ calls.find = 1

\* the update section is one in-zone record, there is no prerequisite, and
\* the prescan has read the record
SinglePrescanDone ==
    /\ request.prereq = <<>>
    /\ Len(request.update) = 1
    /\ request.update[1].name \in InZoneNames
    /\ zname # None
    /\ pc # "check_prerequisites"
    /\ ~(pc = "do_prescan" /\ idx = 1)

\* the cases in which the prescan answers a record with FORMERR
PrescanFormerr(rr) ==
    LET code == RRTypeCode[rr.rrtype]
    IN  \/ rr.rrclass = ZoneClass /\ code >= 249
        \/ rr.rrclass = "ANY" /\ (\/ rr.ttl # 0
                                  \/ Len(rr.rdata) > 0
                                  \/ code \in 249..254)
        \/ rr.rrclass = "NONE" /\ (rr.ttl # 0 \/ code >= 249)
        \/ rr.rrclass \notin {ZoneClass, "ANY", "NONE"}

\* the prescan went on past the first update record
FirstUpdateAccepted ==
    \/ pc = "do_prescan" /\ idx > 1
    \/ pc \in {"update_soa", "do_update"}
    \/ Done /\ diff # <<>>

\* C18: the prescan of a single in-zone update record gives FORMERR in
\* exactly the listed cases and accepts the record in every other case
C18_PrescanTable ==
    SinglePrescanDone =>
        IF PrescanFormerr(request.update[1])
        THEN Done /\ Failed /\ message.rcode = "FORMERR" /\ diff = <<>>
        ELSE FirstUpdateAccepted

\* the session got as far as applying the update
UpdateReached == pc = "do_update" \/ (Done /\ diff # <<>>)

\* the SOA stored at the apex when the session was constructed
OldSoa == StoredRRset(datasrc0, Apex, "SOA")

C19_Sound ==
    UpdateReached =>
        /\ Len(diff) >= 2
        /\ diff[1] = DiffDelete(OldSoa)
        /\ diff[2].op = "add"
        /\ diff[2].rr.rrtype = "SOA"
        /\ (pc = "do_update" /\ idx = 1) => Len(diff) = 2

C19_Step ==
    pc = "update_soa" =>
        /\ diff = <<>>
        /\ pc' = "do_update"
        /\ Len(diff') = 2

\* C19: SOA finalization always runs before the update records are
\* applied and records delete(old apex SOA) then add(new SOA) as the first
\* two operations of the Diff, also for an empty update section
C19_SoaFirst == []C19_Sound /\ [][C19_Step]_vars

\* a successful update with an empty update section
C19_Witness ==
    /\ Succeeded
    /\ request.update = <<>>
    /\ diff = <<DiffDelete(OldSoa), DiffAdd(OldSoa)>>

\* the class-zclass SOA records of the update section
SoaRecords ==
    {i \in 1..Len(request.update) :
        /\ request.update[i].rrclass = ZoneClass
        /\ request.update[i].rrtype = "SOA"}

\* the last Rdata of the last of them
LastSoaRdata ==
    LET i == CHOOSE j \in SoaRecords : \A k \in SoaRecords : k <= j
        rr == request.update[i]
    IN  rr.rdata[Len(rr.rdata)]

C20_Sound ==
    UpdateReached =>
        /\ Len(diff) >= 2
        /\ diff[2].op = "add"
        /\ IF SoaRecords = {} THEN diff[2].rr = OldSoa
           ELSE diff[2].rr.rdata = <<LastSoaRdata>>

C20_Step ==
    (/\ pc = "do_update"
     /\ idx <= Len(message.update)
     /\ message.update[idx].rrclass = ZoneClass
     /\ message.update[idx].rrtype = "SOA") =>
        /\ diff' = diff
        /\ pc' = "do_update"
        /\ idx' = idx + 1

SingleUpdateDispatched ==
    /\ request.prereq = <<>>
    /\ Len(request.update) = 1
    /\ UpdateReached
    /\ ~(pc = "do_update" /\ idx = 1)

\* the operations the Diff received after SOA finalization
RecordOps == SubSeq(diff, 3, Len(diff))

\* a record with the Rdata rd alone
OneRdata(rr, rd) == [rr EXCEPT !.rdata = <<rd>>]

\* a class-zclass record of the zone of a type other than SOA
IsAddition(rr) ==
    /\ rr.name \in InZoneNames
    /\ rr.rrclass = ZoneClass
    /\ rr.rrtype \in StoredTypes \ {"SOA"}

\* the name of rr holds a CNAME, or rr is a CNAME and the name holds
\* something else
CnameRuleApplies(zone, rr) ==
    \/ HasRRset(zone, rr.name, "CNAME")
    \/ rr.rrtype = "CNAME" /\ HasName(zone, rr.name)

\* C21: for a class-zclass record that the CNAME rule does not concern the
\* Diff receives one add for each Rdata of the record that is not stored,
\* and the committed RRset is the union; with no RRset stored every Rdata
\* is added
C21_AddToRRset ==
    (/\ SingleUpdateDispatched
     /\ IsAddition(request.update[1])
     /\ ~CnameRuleApplies(datasrc0, request.update[1])) =>
        LET rr == request.update[1]
            k == <<rr.name, rr.rrtype>>
            new == FirstOccurrences(rr.rdata, Range(datasrc0[k]))
        IN  /\ raised \in {"none", "isc.datasrc.Error"}
            /\ RecordOps = [i \in 1..Len(new) |-> DiffAdd(OneRdata(rr, new[i]))]
            /\ Succeeded =>
                  /\ Range(datasrc[k]) = Range(datasrc0[k]) \cup Range(rr.rdata)
                  /\ \A x \in Range(datasrc[k]) : Occurrences(datasrc[k], x) = 1

\* a class-zclass CNAME record for a name that holds a CNAME
IsCnameOverCname(zone, rr) ==
    /\ rr.name \in InZoneNames
    /\ rr.rrclass = ZoneClass
    /\ rr.rrtype = "CNAME"
    /\ Len(rr.rdata) = 1
    /\ HasRRset(zone, rr.name, "CNAME")

\* C22: a CNAME record for a name that holds a CNAME makes the Diff receive
\* the deletion of the stored CNAME, then the addition of the new one, and
\* after commit the name holds exactly the new CNAME
C22_CnameReplaced ==
    (/\ SingleUpdateDispatched
     /\ IsCnameOverCname(datasrc0, request.update[1])) =>
        LET rr == request.update[1]
            k == <<rr.name, "CNAME">>
            stored == StoredRRset(datasrc0, rr.name, "CNAME")
        IN  /\ raised \in {"none", "isc.datasrc.Error"}
            /\ RecordOps =
                  [i \in 1..Len(stored.rdata) |->
                      DiffDelete(OneRdata(stored, stored.rdata[i]))]
                  \o <<DiffAdd(rr)>>
            /\ Succeeded => datasrc[k] = rr.rdata

\* a class-ANY record of the zone with a type a zone stores
IsDeleteRRset(rr) ==
    /\ rr.name \in InZoneNames
    /\ rr.rrclass = "ANY"
    /\ rr.rrtype \in StoredTypes
    /\ rr.ttl = 0
    /\ rr.rdata = <<>>

\* the SOA and the NS of the apex
IsApexSoaOrNs(n, t) == n = Apex /\ t \in {"SOA", "NS"}

\* C23: a class-ANY record of type T makes the Diff receive one delete for
\* each Rdata of the stored RRset(name, T) and nothing else, none at all
\* for the SOA and NS of the apex or when no such RRset is stored; the
\* update succeeds and only RRset(name, T) is gone
C23_DeleteRRset ==
    (/\ SingleUpdateDispatched
     /\ IsDeleteRRset(request.update[1])) =>
        LET rr == request.update[1]
            k == <<rr.name, rr.rrtype>>
            stored == StoredRRset(datasrc0, rr.name, rr.rrtype)
            kept == IsApexSoaOrNs(rr.name, rr.rrtype)
        IN  /\ raised \in {"none", "isc.datasrc.Error"}
            /\ RecordOps =
                  IF kept THEN <<>>
                  ELSE [i \in 1..Len(stored.rdata) |->
                           DiffDelete(OneRdata(stored, stored.rdata[i]))]
            /\ Succeeded =>
                  datasrc = IF kept THEN datasrc0
                            ELSE [datasrc0 EXCEPT ![k] = <<>>]

\* a class-NONE record of the zone, the NS of the apex excepted
IsDeleteRRs(rr) ==
    /\ rr.name \in InZoneNames
    /\ rr.rrclass = "NONE"
    /\ rr.rrtype \in StoredTypes
    /\ rr.ttl = 0
    /\ ~(rr.name = Apex /\ rr.rrtype = "NS")

\* C24: a class-NONE record makes the Diff receive one delete, in the
\* zone's class, for each Rdata it names and nothing else, none at all for
\* the SOA of the apex; after commit the stored RRset has lost exactly the
\* named Rdata and every other RRset is as it was
C24_DeleteRRs ==
    (/\ SingleUpdateDispatched
     /\ IsDeleteRRs(request.update[1])) =>
        LET rr == request.update[1]
            k == <<rr.name, rr.rrtype>>
            named == [i \in 1..Len(rr.rdata) |->
                         Rdata(rr.rrtype, ZoneClass, rr.rdata[i].wire)]
            kept == rr.name = Apex /\ rr.rrtype = "SOA"
        IN  /\ RecordOps =
                  IF kept THEN <<>>
                  ELSE [i \in 1..Len(named) |->
                           DiffDelete([name |-> rr.name, rrclass |-> ZoneClass,
                                       rrtype |-> rr.rrtype, ttl |-> rr.ttl,
                                       rdata |-> <<named[i]>>])]
            /\ Succeeded =>
                  datasrc = IF kept THEN datasrc0
                            ELSE [datasrc0 EXCEPT ![k] =
                                     SelectSeq(@, LAMBDA x : x \notin Range(named))]

\* 'www.ex. NONE A 1' on a zone where www.ex. holds A 1 and A 2
C24_Witness ==
    /\ Succeeded
    /\ request.prereq = <<>>
    /\ request.update = <<RRset(Www, "NONE", "A", 0, <<1>>)>>
    /\ datasrc0[<<Www, "A">>] = <<Rdata("A", ZoneClass, 1), Rdata("A", ZoneClass, 2)>>
    /\ datasrc[<<Www, "A">>] = <<Rdata("A", ZoneClass, 2)>>
    /\ Len(diff) = 3

\* a record as the Diff accepts it: one Rdata, in the zone's class
SingleRRInZoneClass(rr) ==
    /\ Len(rr.rdata) = 1
    /\ rr.rrclass = ZoneClass
    /\ rr.rdata[1].rrclass = ZoneClass

\* the session is at, or was ended by, a class-NONE record for the NS of
\* the apex
AtApexNsDeletion ==
    /\ idx \in 1..Len(request.update)
    /\ request.update[idx].name = Apex
    /\ request.update[idx].rrclass = "NONE"
    /\ request.update[idx].rrtype = "NS"

\* C25: every record the session hands to add_data or delete_data has
\* exactly one Rdata and the zone's class: what the Diff holds is of that
\* shape and the Diff never refuses a record (the only ValueError is that
\* of list.remove in the helper for the NS of the apex)
C25_SingleRRInZoneClass ==
    /\ \A i \in 1..Len(diff) : SingleRRInZoneClass(diff[i].rr)
    /\ raised = "ValueError" => AtApexNsDeletion

\* 'ex. NONE NS 1, 2' on a zone whose apex holds NS 1 and NS 2: the stored
\* SOA is deleted and added, NS 1 is deleted in class zclass, NS 2 is kept
C25_Witness ==
    /\ Succeeded
    /\ request.update = <<RRset(Apex, "NONE", "NS", 0, <<1, 2>>)>>
    /\ Len(diff) = 3
    /\ diff[3] = DiffDelete(RRset(Apex, ZoneClass, "NS", 0, <<1>>))
    /\ datasrc[<<Apex, "NS">>] = <<Rdata("NS", ZoneClass, 2)>>

\* C26: after handle() has returned the message is the response to the
\* request: QR set, the request's ID, the rcode the session determined
\* (NOERROR exactly for SUCCESS), and the ZONE, PREREQUISITE, UPDATE and
\* ADDITIONAL sections empty whatever the request carried
C26_Response ==
    Returned =>
        /\ message.qr
        /\ message.id = request.id
        /\ message.rcode = FirstFailingRcode
        /\ Succeeded <=> message.rcode = "NOERROR"
        /\ message.zone = <<>>
        /\ message.prereq = <<>>
        /\ message.update = <<>>
        /\ message.additional = <<>>

\* a request with ID 2 and all four sections filled, answered NOTAUTH
C26_Witness ==
    /\ Failed
    /\ request.id = 2
    /\ request.zone # <<>>
    /\ request.prereq # <<>>
    /\ request.update # <<>>
    /\ request.additional # <<>>
    /\ message.rcode = "NOTAUTH"
    /\ message.additional = <<>>

\* RFC 2136 section 3.4.2.4 for the NS of the apex, one RR after the other:
\* an RR that would delete the last NS is ignored
RECURSIVE Rfc2136DeleteApexNs(_, _)
Rfc2136DeleteApexNs(stored, named) ==
    IF named = <<>> THEN stored
    ELSE IF Range(stored) \subseteq {Head(named)}
    THEN Rfc2136DeleteApexNs(stored, Tail(named))
    ELSE Rfc2136DeleteApexNs(SelectSeq(stored, LAMBDA x : x # Head(named)),
                             Tail(named))

\* RFC 2136 section 3.4.2: the zone after one update record (serial
\* numbers are not compared)
Rfc2136Apply(zone, rr) ==
    LET k == <<rr.name, rr.rrtype>>
        named == [i \in 1..Len(rr.rdata) |->
                     Rdata(rr.rrtype, ZoneClass, rr.rdata[i].wire)]
    IN  IF k \notin ZoneKeys /\ ~(rr.rrclass = "ANY" /\ rr.rrtype = "ANY")
        THEN zone
        ELSE IF rr.rrclass = ZoneClass THEN
            IF rr.rdata = <<>> THEN zone
            ELSE IF rr.rrtype = "SOA" THEN
                IF zone[k] = <<>> THEN zone
                ELSE [zone EXCEPT ![k] = <<named[Len(named)]>>]
            ELSE IF rr.rrtype = "CNAME" THEN
                IF \E t \in StoredTypes \ {"CNAME"} : zone[<<rr.name, t>>] # <<>>
                THEN zone
                ELSE IF zone[k] = <<>>
                THEN [zone EXCEPT ![k] = FirstOccurrences(named, {})]
                ELSE [zone EXCEPT ![k] = <<named[Len(named)]>>]
            ELSE IF zone[<<rr.name, "CNAME">>] # <<>> THEN zone
            ELSE [zone EXCEPT ![k] = @ \o FirstOccurrences(named, Range(@))]
        ELSE IF rr.rrclass = "ANY" THEN
            IF rr.rrtype = "ANY"
            THEN [x \in ZoneKeys |->
                     IF x[1] = rr.name /\ ~IsApexSoaOrNs(x[1], x[2])
                     THEN <<>> ELSE zone[x]]
            ELSE IF IsApexSoaOrNs(rr.name, rr.rrtype) THEN zone
            ELSE [zone EXCEPT ![k] = <<>>]
        ELSE IF rr.rrclass = "NONE" THEN
            IF rr.name = Apex /\ rr.rrtype = "SOA" THEN zone
            ELSE IF rr.name = Apex /\ rr.rrtype = "NS"
            THEN [zone EXCEPT ![k] = Rfc2136DeleteApexNs(@, named)]
            ELSE [zone EXCEPT ![k] = SelectSeq(@, LAMBDA x : x \notin Range(named))]
        ELSE zone

\* the update records applied one at a time in section order, each to the
\* zone as the records before it left it
RECURSIVE Rfc2136ApplyAll(_, _)
Rfc2136ApplyAll(zone, upd) ==
    IF upd = <<>> THEN zone
    ELSE Rfc2136ApplyAll(Rfc2136Apply(zone, Head(upd)), Tail(upd))

\* every (name, type) holds the same set of Rdata
SameRRsets(z1, z2) == \A k \in ZoneKeys : Range(z1[k]) = Range(z2[k])

\* C27: the zone committed by a successful update is the zone obtained by
\* applying the update records one at a time in section order, each to the
\* zone as already modified by the records before it
C27_SequentialSemantics ==
    Succeeded => SameRRsets(datasrc, Rfc2136ApplyAll(datasrc0, request.update))

(***************************************************************************)
(* Two sessions on the same zone.  The second session runs the same code   *)
(* on its own request and its own Diff; its state is the record `other`.   *)
(* Both share the data source.  Each step of a session is atomic, the      *)
(* steps of the two sessions interleave freely.                            *)
(***************************************************************************)
\* the variables of the first session
session == <<message, request, zone_config, datasrc0, added_soa, pc, idx,
             zname, zclass, diff, result, raised, calls, run>>

\* the Diff of the first session is open
DiffOpen == pc = "do_update"

\* the prerequisite and update sections the two sessions carry
TwoPrereqs ==
    {<<>>,
     <<RRset(Www, "IN", "A", 0, <<1>>)>>,
     <<RRset(Www, "NONE", "ANY", 0, <<>>)>>}
TwoUpdates ==
    {<<>>,
     <<RRset(Www, "NONE", "A", 0, <<1>>)>>,
     <<RRset(Www, "IN", "A", 0, <<2>>)>>,
     <<RRset(Apex, "IN", "NS", 0, <<2>>)>>,
     <<RRset(Apex, "NONE", "NS", 0, <<1>>)>>}

\* the second session after __get_update_zone: its zone section names the
\* zone and the server is primary for it
OtherConstructed(p, u) ==
    [pc |-> "check_prerequisites", idx |-> 1, prereq |-> p, update |-> u,
     added_soa |-> NoRRset, diff |-> <<>>, rcode |-> "none",
     raised |-> "none", committed |-> FALSE, first |-> FALSE]

InitTwo ==
    \E p1 \in TwoPrereqs, u1 \in TwoUpdates, p2 \in TwoPrereqs,
       u2 \in TwoUpdates, zone \in Zones :
        /\ message = Request(1, ValidZoneSection, p1, u1, <<>>)
        /\ request = message
        /\ zone_config = "ZONE_PRIMARY"
        /\ datasrc = zone
        /\ datasrc0 = zone
        /\ added_soa = NoRRset
        /\ pc = "get_update_zone"
        /\ idx = 1
        /\ zname = None
        /\ zclass = None
        /\ diff = <<>>
        /\ result = <<>>
        /\ raised = "none"
        /\ calls = NoCalls
        /\ run = 1
        /\ other = OtherConstructed(p2, u2)

\* __do_prescan: the whole loop, which reads the request only
RECURSIVE do_prescan(_, _, _, _)
do_prescan(zn, zc, upd, soa) ==
    IF upd = <<>>
    THEN [rcode |-> "NOERROR", added_soa |-> soa, exc |-> "none"]
    ELSE LET r == do_prescan_rr(zn, zc, Head(upd), soa)
         IN  IF r.exc # "none" \/ r.rcode # "NOERROR" THEN r
             ELSE do_prescan(zn, zc, Tail(upd), r.added_soa)

OtherCheckPrerequisite ==
    /\ other.pc = "check_prerequisites"
    /\ other.idx <= Len(other.prereq)
    /\ LET r == check_prerequisite(datasrc, Apex, ZoneClass,
                                   other.prereq[other.idx])
       IN  other' = IF r.rcode = "NOERROR"
                    THEN [other EXCEPT !.idx = @ + 1]
                    ELSE [other EXCEPT !.pc = "done", !.rcode = r.rcode]
    /\ UNCHANGED <<session, datasrc>>

OtherPrescan ==
    /\ other.pc = "check_prerequisites"
    /\ other.idx > Len(other.prereq)
    /\ LET r == do_prescan(Apex, ZoneClass, other.update, NoRRset)
       IN  other' = IF r.exc # "none"
                    THEN [other EXCEPT !.pc = "done", !.raised = r.exc]
                    ELSE IF r.rcode # "NOERROR"
                    THEN [other EXCEPT !.pc = "done", !.rcode = r.rcode]
                    ELSE [other EXCEPT !.pc = "update_soa",
                                       !.added_soa = r.added_soa]
    /\ UNCHANGED <<session, datasrc>>

OtherUpdateSoa ==
    /\ other.pc = "update_soa"
    /\ LET r == update_soa(datasrc, Apex, other.added_soa)
       IN  other' = IF DiffOpen
                    THEN [other EXCEPT !.pc = "done",
                                       !.raised = "isc.datasrc.Error"]
                    ELSE IF r.exc # "none"
                    THEN [other EXCEPT !.pc = "done", !.raised = r.exc,
                                       !.diff = r.ops]
                    ELSE [other EXCEPT !.pc = "do_update", !.idx = 1,
                                       !.diff = r.ops]
    /\ UNCHANGED <<session, datasrc>>

OtherDoUpdate ==
    /\ other.pc = "do_update"
    /\ other.idx <= Len(other.update)
    /\ LET r == do_update_rr(datasrc, Apex, ZoneClass, other.update[other.idx])
       IN  other' = IF r.exc # "none"
                    THEN [other EXCEPT !.pc = "done", !.raised = r.exc,
                                       !.diff = @ \o r.ops]
                    ELSE [other EXCEPT !.idx = @ + 1, !.diff = @ \o r.ops]
    /\ UNCHANGED <<session, datasrc>>

\* the second session commits; `first` records whether the first session
\* had not committed yet
OtherCommit ==
    /\ other.pc = "do_update"
    /\ other.idx > Len(other.update)
    /\ datasrc' = DiffCommit(datasrc, other.diff)
    /\ other' = [other EXCEPT !.pc = "done", !.rcode = "NOERROR",
                              !.committed = TRUE, !.first = ~Succeeded]
    /\ UNCHANGED session

OtherCommitFails ==
    /\ other.pc = "do_update"
    /\ other.idx > Len(other.update)
    /\ other' = [other EXCEPT !.pc = "done", !.raised = "isc.datasrc.Error"]
    /\ UNCHANGED <<session, datasrc>>

NextTwo ==
    \/ Next
    \/ OtherCheckPrerequisite
    \/ OtherPrescan
    \/ OtherUpdateSoa
    \/ OtherDoUpdate
    \/ OtherCommit
    \/ OtherCommitFails

SpecTwo == InitTwo /\ [][NextTwo]_vars

\* the zone after a session with prerequisites p and update section u has
\* handled its request alone on zone, its commit succeeding
RunAlone(zone, p, u) ==
    LET pre == [i \in 1..Len(p) |->
                   check_prerequisite(zone, Apex, ZoneClass, p[i]).rcode]
        scan == do_prescan(Apex, ZoneClass, u, NoRRset)
        d == SessionDiff(zone, Apex, ZoneClass, u)
    IN  IF FirstFailure(pre) # "NOERROR" THEN zone
        ELSE IF scan.rcode # "NOERROR" \/ scan.exc # "none" THEN zone
        ELSE IF d.exc # "none" THEN zone
        ELSE DiffCommit(zone, d.ops)

BothCommitted == Succeeded /\ other.pc = "done" /\ other.committed

\* the two sessions run one after the other, in the order of their commits
SerialInCommitOrder ==
    IF other.first
    THEN RunAlone(RunAlone(datasrc0, other.prereq, other.update),
                  request.prereq, request.update)
    ELSE RunAlone(RunAlone(datasrc0, request.prereq, request.update),
                  other.prereq, other.update)

\* C28: when two sessions on the same zone, each with its own Diff, have
\* both committed, however their steps were interleaved, the zone is the
\* one that running them one after the other in the order of their commits
\* produces, and the apex holds exactly one SOA and at least one NS
C28_SerialInCommitOrder ==
    BothCommitted =>
        /\ SameZone(datasrc, SerialInCommitOrder)
        /\ Len(ApexSOA(datasrc)) = 1
        /\ Len(ApexNS(datasrc)) >= 1

====
